---- MODULE Spec2Model ----
(***************************************************************************)
(* Model of storage/client.go: the storageClient transport interface, the  *)
(* settings aggregate, the storageOption variants and the resolution of    *)
(* options into client-level and call-scoped settings.                     *)
(*                                                                         *)
(* Go memory is modelled explicitly: a *settings is an address into heap,  *)
(* address NilPtr is the nil pointer, the client's defaults live at        *)
(* ClientAddr and the struct `cs` of caller c's callSettings frame lives   *)
(* at CsAddr(c).  Slices and the *retryConfig are values that options      *)
(* replace wholesale.                                                      *)
(***************************************************************************)
EXTENDS Integers, Sequences, FiniteSets, TLC

VARIABLES heap, defaults, clientOpts, pc, arg, opts, i, cs, applied, ret, snap,
          unsupported, last, rw, resp

vars == <<heap, defaults, clientOpts, pc, arg, opts, i, cs, applied, ret, snap,
          unsupported, last, rw, resp>>

settingsVars == <<heap, defaults, clientOpts, pc, arg, opts, i, cs, applied, ret, snap>>
transportVars == <<unsupported, last, rw, resp>>

\* ---------------------------------------------------------------- bounds
\* longest option sequence passed to one call
MaxOpts == 2
\* longest option sequence passed to the client factory
MaxClientOpts == 1
\* largest source object of a rewrite, in bytes
MaxObjectSize == 4
\* most bytes the service copies in one rewrite round trip
MaxChunk == 2

\* ---------------------------------------------------------------- values
Callers == {1, 2}
SeqCallers == {1}

NilPtr == 0
ClientAddr == 1
CsAddr(c) == 1 + c
Addrs == {ClientAddr} \cup {CsAddr(c) : c \in Callers}

NilRetry == "nil"
RetryConfigs == {"rc1", "rc2"}
GaxCallOptions == {<<"g1">>, <<"g2">>}
ClientOptions == {<<"o1">>, <<"o2">>}

Fields == {"retry", "gax", "idempotent", "clientOption"}

\* the zero value &settings{}
ZeroSettings ==
  [retry |-> NilRetry, gax |-> <<>>, idempotent |-> FALSE, clientOption |-> <<>>]

\* ---------------------------------------------------------------- options
withGAXOptions(o) == [kind |-> "gaxOption", opts |-> o]
withRetryConfig(rc) == [kind |-> "retryOption", rc |-> rc]
idempotent(b) == [kind |-> "idempotentOption", idempotency |-> b]
withClientOptions(o) == [kind |-> "clientOption", opts |-> o]

StorageOptions ==
  {withGAXOptions(g) : g \in GaxCallOptions}
    \cup {withRetryConfig(r) : r \in RetryConfigs}
    \cup {idempotent(b) : b \in BOOLEAN}
    \cup {withClientOptions(o) : o \in ClientOptions}

\* the options used by the parallel callers
ConcOptions == {idempotent(TRUE), idempotent(FALSE), withRetryConfig("rc1")}

OptSeqs(S, n) == UNION {[1..k -> S] : k \in 0..n}

gaxOptionAppend(o, s) == [s EXCEPT !.gax = s.gax \o o.opts]
gaxOptionApply(o, s) == [s EXCEPT !.gax = o.opts]

retryOptionSetsIdempotent(o, s) == [s EXCEPT !.retry = o.rc, !.idempotent = TRUE]
retryOptionApply(o, s) == [s EXCEPT !.retry = o.rc]

idempotentOptionApply(o, s) == [s EXCEPT !.idempotent = o.idempotency]

clientOptionApply(o, s) == [s EXCEPT !.clientOption = o.opts]

\* o.Apply(s): dynamic dispatch on the concrete option type
Apply(o, s) ==
  CASE o.kind = "gaxOption" -> gaxOptionApply(o, s)
    [] o.kind = "retryOption" -> retryOptionApply(o, s)
    [] o.kind = "idempotentOption" -> idempotentOptionApply(o, s)
    [] o.kind = "clientOption" -> clientOptionApply(o, s)

\* ---------------------------------------------------------------- resolution
\* for _, o := range opts { o.Apply(s) } as a left fold
RECURSIVE resolveOptions(_, _)
resolveOptions(s, os) ==
  IF os = <<>> THEN s ELSE resolveOptions(Apply(Head(os), s), Tail(os))

initSettings(os) == resolveOptions(ZeroSettings, os)

\* the k-th element visited by `range opts`
RangeReversed(os, k) == os[Len(os) + 1 - k]
Range(os, k) == os[k]

\* where `cs := *defaults` puts the copy: a struct of the caller's own frame
csAlias(c, d) == d
csShared(c, d) == CsAddr(1)
csAlloc(c, d) == CsAddr(c)

\* the value `*defaults` copied into cs
derefDropsClientOption(s) == [s EXCEPT !.clientOption = <<>>]
derefResetsIdempotent(s) == [s EXCEPT !.idempotent = FALSE]
deref(s) == s

\* what callSettings returns for nil defaults
fabricated(c) == CsAddr(c)
absent(c) == NilPtr

\* ---------------------------------------------------------------- actions
\* the client factory: s := initSettings(opts...), retained per instance
NewClient(os) ==
  /\ defaults = NilPtr
  /\ defaults' = ClientAddr
  /\ heap' = [heap EXCEPT ![ClientAddr] = initSettings(os)]
  /\ clientOpts' = os
  /\ UNCHANGED <<pc, arg, opts, i, cs, applied, ret, snap, transportVars>>

\* callSettings(defaults, opts...): the nil check and the shallow copy
callSettingsBegin(c, os) ==
  /\ pc[c] = "idle"
  /\ arg' = [arg EXCEPT ![c] = defaults]
  /\ opts' = [opts EXCEPT ![c] = os]
  /\ applied' = [applied EXCEPT ![c] = <<>>]
  /\ IF defaults = NilPtr
       THEN /\ pc' = [pc EXCEPT ![c] = "done"]
            /\ ret' = [ret EXCEPT ![c] = absent(c)]
            /\ UNCHANGED <<heap, cs, i, snap>>
       ELSE /\ snap' = [snap EXCEPT ![c] = heap[defaults]]
            /\ cs' = [cs EXCEPT ![c] = csAlloc(c, defaults)]
            /\ heap' = [heap EXCEPT ![csAlloc(c, defaults)] = deref(heap[defaults])]
            /\ i' = [i EXCEPT ![c] = 1]
            /\ pc' = [pc EXCEPT ![c] = "resolve"]
            /\ UNCHANGED ret
  /\ UNCHANGED <<defaults, clientOpts, transportVars>>

\* one iteration of resolveOptions(&cs, opts...): o.Apply(s)
resolveOptionsStep(c) ==
  /\ pc[c] = "resolve"
  /\ i[c] <= Len(opts[c])
  /\ LET o == Range(opts[c], i[c]) IN
       /\ heap' = [heap EXCEPT ![cs[c]] = Apply(o, @)]
       /\ applied' = [applied EXCEPT ![c] = Append(@, o)]
  /\ i' = [i EXCEPT ![c] = @ + 1]
  /\ UNCHANGED <<defaults, clientOpts, pc, arg, opts, cs, ret, snap, transportVars>>

\* the loop is exhausted: return &cs
callSettingsReturn(c) ==
  /\ pc[c] = "resolve"
  /\ i[c] > Len(opts[c])
  /\ ret' = [ret EXCEPT ![c] = cs[c]]
  /\ pc' = [pc EXCEPT ![c] = "done"]
  /\ UNCHANGED <<heap, defaults, clientOpts, arg, opts, i, cs, applied, snap, transportVars>>

\* the call is over: its call-scoped settings are dropped
callDone(c) ==
  /\ pc[c] = "done"
  /\ pc' = [pc EXCEPT ![c] = "idle"]
  /\ heap' = [heap EXCEPT ![CsAddr(c)] = ZeroSettings]
  /\ arg' = [arg EXCEPT ![c] = NilPtr]
  /\ opts' = [opts EXCEPT ![c] = <<>>]
  /\ i' = [i EXCEPT ![c] = 0]
  /\ cs' = [cs EXCEPT ![c] = NilPtr]
  /\ applied' = [applied EXCEPT ![c] = <<>>]
  /\ ret' = [ret EXCEPT ![c] = NilPtr]
  /\ snap' = [snap EXCEPT ![c] = ZeroSettings]
  /\ UNCHANGED <<defaults, clientOpts, transportVars>>

InitSettingsVars ==
  /\ heap = [a \in Addrs |-> ZeroSettings]
  /\ defaults = NilPtr
  /\ clientOpts = <<>>
  /\ pc = [c \in Callers |-> "idle"]
  /\ arg = [c \in Callers |-> NilPtr]
  /\ opts = [c \in Callers |-> <<>>]
  /\ i = [c \in Callers |-> 0]
  /\ cs = [c \in Callers |-> NilPtr]
  /\ applied = [c \in Callers |-> <<>>]
  /\ ret = [c \in Callers |-> NilPtr]
  /\ snap = [c \in Callers |-> ZeroSettings]

InitTransportIdle ==
  /\ unsupported = {}
  /\ last = [method |-> "none", err |-> "nil"]
  /\ rw = [state |-> "notStarted", size |-> 0, written |-> 0, token |-> 0]
  /\ resp = [done |-> FALSE, written |-> 0, token |-> 0]

Init == InitSettingsVars /\ InitTransportIdle

\* one client, one caller at a time, every option variant
Next ==
  \/ \E os \in OptSeqs(StorageOptions, MaxClientOpts) : NewClient(os)
  \/ \E c \in SeqCallers : \E os \in OptSeqs(StorageOptions, MaxOpts) : callSettingsBegin(c, os)
  \/ \E c \in SeqCallers : resolveOptionsStep(c)
  \/ \E c \in SeqCallers : callSettingsReturn(c)
  \/ \E c \in SeqCallers : callDone(c)

Spec == Init /\ [][Next]_vars

\* one client shared by parallel callers
NextConc ==
  \/ \E os \in OptSeqs(ConcOptions, MaxClientOpts) : NewClient(os)
  \/ \E c \in Callers : \E os \in OptSeqs(ConcOptions, MaxOpts) : callSettingsBegin(c, os)
  \/ \E c \in Callers : resolveOptionsStep(c)
  \/ \E c \in Callers : callSettingsReturn(c)
  \/ \E c \in Callers : callDone(c)

SpecConc == Init /\ [][NextConc]_vars

\* ---------------------------------------------------------------- transport
\* the methods of the storageClient interface
Methods ==
  {"GetServiceAccount", "CreateBucket", "ListBuckets",
   "DeleteBucket", "GetBucket", "UpdateBucket", "LockBucketRetentionPolicy", "ListObjects",
   "DeleteObject", "GetObject", "UpdateObject",
   "DeleteDefaultObjectACL", "ListDefaultObjectACLs", "UpdateDefaultObjectACL",
   "DeleteBucketACL", "ListBucketACLs", "UpdateBucketACL",
   "DeleteObjectACL", "ListObjectACLs", "UpdateObjectACL",
   "ComposeObject", "RewriteObject", "OpenReader", "OpenWriter",
   "GetIamPolicy", "SetIamPolicy", "TestIamPermissions",
   "GetHMACKey", "ListHMACKey", "UpdateHMACKey", "CreateHMACKey", "DeleteHMACKey"}

\* the methods whose signature ends in an `error` result: all but
\* ListHMACKey, which returns only *HMACKeysIterator
ErrorResultMethods == Methods \ {"ListHMACKey"}

\* what a transport may leave unimplemented: nothing, one method, everything
UnsupportedSets == {{}} \cup {{m} : m \in Methods} \cup {Methods}

\* the error result a method hands back, given the error the transport has
errorResult(m, e) == IF m \in ErrorResultMethods THEN e ELSE "noErrorResult"

\* any interface method other than a supported RewriteObject
Invoke(m) ==
  /\ m \in unsupported \/ m # "RewriteObject"
  /\ IF m \in unsupported
       THEN last' = [method |-> m, err |-> errorResult(m, "StorageUnimplementedErr")]
       ELSE \E e \in {"nil", "APIError"} : last' = [method |-> m, err |-> errorResult(m, e)]
  /\ UNCHANGED <<unsupported, rw, resp, settingsVars>>

Min(a, b) == IF a < b THEN a ELSE b

\* bytes written after one round trip that copies k more bytes
advance(w, size, k) == Min(w + k, size)

\* the byte a round trip resumes from: where the token's rewrite stands, the
\* start of the object for the empty token
resumeIgnoresToken(tok, written) == 0
resumeFrom(tok, written) == IF tok = 0 THEN 0 ELSE written

\* RewriteObject on a transport that implements it: one round trip. The
\* request carries the token of the prior response (0 is the empty token
\* of a fresh rewrite, of an object of n bytes).
RewriteObject(n, k) ==
  /\ "RewriteObject" \notin unsupported
  /\ LET req == [token |-> resp.token]
         size == IF req.token = 0 THEN n ELSE rw.size
         from == resumeFrom(req.token, rw.written)
         w == advance(from, size, k)
         d == (w = size)
         tok == IF d THEN 0 ELSE req.token + 1
     IN /\ rw' = [state |-> IF d THEN "done" ELSE "inProgress",
                  size |-> size, written |-> w, token |-> tok]
        /\ resp' = [done |-> d, written |-> w, token |-> tok]
  /\ last' = [method |-> "RewriteObject", err |-> errorResult("RewriteObject", "nil")]
  /\ UNCHANGED <<unsupported, settingsVars>>

RewriteObjectCall == \E n \in 0..MaxObjectSize : \E k \in 1..MaxChunk : RewriteObject(n, k)

InitTransport ==
  /\ unsupported \in UnsupportedSets
  /\ last = [method |-> "none", err |-> "nil"]
  /\ rw = [state |-> "notStarted", size |-> 0, written |-> 0, token |-> 0]
  /\ resp = [done |-> FALSE, written |-> 0, token |-> 0]

NextTransport ==
  \/ \E m \in Methods : Invoke(m)
  \/ RewriteObjectCall

\* a transport serving every method of the interface
InitTransportSpec == InitSettingsVars /\ InitTransport

SpecTransport == InitTransportSpec /\ [][NextTransport]_vars

\* the "Media operations" group of the interface
MediaMethods == {"ComposeObject", "RewriteObject", "OpenReader", "OpenWriter"}

InitRewrite ==
  /\ unsupported \in SUBSET MediaMethods
  /\ last = [method |-> "none", err |-> "nil"]
  /\ rw = [state |-> "notStarted", size |-> 0, written |-> 0, token |-> 0]
  /\ resp = [done |-> FALSE, written |-> 0, token |-> 0]

NextRewrite ==
  \/ \E m \in MediaMethods : Invoke(m)
  \/ RewriteObjectCall

InitRewriteSpec == InitSettingsVars /\ InitRewrite

\* a client doing media operations; the caller of a rewrite keeps re-invoking
\* RewriteObject with the token it was handed
SpecRewrite ==
  /\ InitRewriteSpec
  /\ [][NextRewrite]_vars
  /\ WF_vars(RewriteObjectCall)

\* ---------------------------------------------------------------- properties
\* the field an option variant is documented to carry, and its payload
WrittenField(o) ==
  CASE o.kind = "gaxOption" -> "gax"
    [] o.kind = "retryOption" -> "retry"
    [] o.kind = "idempotentOption" -> "idempotent"
    [] o.kind = "clientOption" -> "clientOption"

Payload(o) ==
  CASE o.kind = "gaxOption" -> o.opts
    [] o.kind = "retryOption" -> o.rc
    [] o.kind = "idempotentOption" -> o.idempotency
    [] o.kind = "clientOption" -> o.opts

Max(S) == CHOOSE x \in S : \A y \in S : y <= x

\* field f after os over base s: the payload of the last option of os that
\* writes f, the base value when none does
LastWrite(s, os, f) ==
  LET W == {j \in 1..Len(os) : WrittenField(os[j]) = f}
  IN IF W = {} THEN s[f] ELSE Payload(os[Max(W)])

Returned(c) == pc[c] = "done" /\ arg[c] # NilPtr

\* C1: callSettings never mutates its defaults argument: during the call and
\* after it returned, every field of D equals its value from before the call.
DefaultsNotMutated ==
  \A c \in Callers :
    (pc[c] \in {"resolve", "done"} /\ arg[c] # NilPtr) =>
      \A f \in Fields : heap[arg[c]][f] = snap[c][f]

\* a call on non-nil defaults returned settings that differ from the defaults
\* in two fields
W_DefaultsNotMutated ==
  \E c \in Callers :
    /\ Returned(c)
    /\ Len(opts[c]) = 2
    /\ Cardinality({f \in Fields : heap[ret[c]][f] # snap[c][f]}) = 2

\* C2: option resolution is last-writer-wins per field, for the client-level
\* settings over the zero value and for call-scoped settings over a copy of D.
LastWriterWins ==
  /\ defaults # NilPtr =>
       \A f \in Fields : heap[defaults][f] = LastWrite(ZeroSettings, clientOpts, f)
  /\ \A c \in Callers :
       (Returned(c) /\ ret[c] # NilPtr) =>
         \A f \in Fields : heap[ret[c]][f] = LastWrite(snap[c], opts[c], f)

\* two options of one call wrote the same field with different payloads, over
\* defaults whose one client-level option wrote another field
W_LastWriterWins ==
  \E c \in Callers :
    /\ Returned(c)
    /\ Len(opts[c]) = 2
    /\ WrittenField(opts[c][1]) = WrittenField(opts[c][2])
    /\ Payload(opts[c][1]) # Payload(opts[c][2])
    /\ Len(clientOpts) = 1
    /\ WrittenField(clientOpts[1]) # WrittenField(opts[c][1])

\* C3: parallel callSettings calls on one shared defaults instance do not
\* interfere: each returned settings is what the call computes alone, and the
\* defaults keep the value the factory gave them.
NoInterference ==
  /\ defaults # NilPtr => heap[defaults] = initSettings(clientOpts)
  /\ \A c \in Callers :
       (Returned(c) /\ ret[c] # NilPtr) =>
         /\ heap[ret[c]] = resolveOptions(snap[c], opts[c])
         /\ snap[c] = initSettings(clientOpts)

\* both callers have returned, one with idempotent(TRUE) last and one with
\* idempotent(FALSE) last, and each holds its own flag
W_NoInterference ==
  /\ \A c \in Callers : Returned(c) /\ Len(opts[c]) = 2
  /\ opts[1][2] = idempotent(TRUE) /\ opts[2][2] = idempotent(FALSE)
  /\ heap[ret[1]].idempotent /\ ~heap[ret[2]].idempotent
  /\ ret[1] # ret[2]

\* C4: callSettings on nil defaults returns nil and applies no option; on
\* non-nil defaults the result is non-nil.
NilDefaultsNilResult ==
  \A c \in Callers :
    pc[c] = "done" =>
      /\ arg[c] = NilPtr => (ret[c] = NilPtr /\ applied[c] = <<>>)
      /\ arg[c] # NilPtr => ret[c] # NilPtr

\* a call with two options on nil defaults has returned
W_NilDefaultsNilResult ==
  \E c \in Callers : pc[c] = "done" /\ arg[c] = NilPtr /\ Len(opts[c]) = 2

\* C5: resolving no options is the identity: callSettings(D) equals D field
\* by field and initSettings() is the zero settings.
EmptyIsIdentity ==
  /\ (defaults # NilPtr /\ clientOpts = <<>>) =>
       /\ heap[defaults].retry = "nil"
       /\ heap[defaults].gax = <<>>
       /\ heap[defaults].idempotent = FALSE
       /\ heap[defaults].clientOption = <<>>
  /\ \A c \in Callers :
       (Returned(c) /\ opts[c] = <<>>) =>
         /\ ret[c] # NilPtr
         /\ \A f \in Fields : heap[ret[c]][f] = snap[c][f]
         /\ \A f \in Fields : heap[ret[c]][f] = heap[arg[c]][f]

\* a call without options returned on defaults that are not the zero value
W_EmptyIsIdentity ==
  \E c \in Callers :
    /\ Returned(c)
    /\ opts[c] = <<>>
    /\ snap[c] # ZeroSettings
    /\ snap[c].idempotent

UnimplementedAsErrorResult ==
  last.method \in unsupported => last.err = "StorageUnimplementedErr"

\* C8: resolveOptions applies the options in the order received, each once,
\* and never blocks or fails: the Apply invocations so far are the prefix of
\* the sequence, and the whole sequence at the return.
AppliedInOrder ==
  \A c \in Callers :
    /\ pc[c] = "resolve" =>
         /\ i[c] \in 1..(Len(opts[c]) + 1)
         /\ applied[c] = SubSeq(opts[c], 1, i[c] - 1)
         /\ ENABLED (resolveOptionsStep(c) \/ callSettingsReturn(c))
    /\ Returned(c) => applied[c] = opts[c]

\* two different options were applied, the first before the second
W_AppliedInOrder ==
  \E c \in Callers :
    /\ Returned(c)
    /\ Len(applied[c]) = 2
    /\ applied[c][1] # applied[c][2]
    /\ applied[c][1] = opts[c][1]

\* C9: an Apply writes its option's payload to its one field, whatever the
\* field held, and leaves the three other fields and every other settings
\* alone.
OneFieldPerApply ==
  [][\A c \in Callers :
       (pc[c] = "resolve" /\ i'[c] = i[c] + 1) =>
         LET o == opts[c][i[c]]
             a == cs[c]
         IN /\ \A f \in Fields :
                 heap'[a][f] = IF f = WrittenField(o) THEN Payload(o) ELSE heap[a][f]
            /\ \A b \in Addrs \ {a} : heap'[b] = heap[b]]_vars

\* an option has overwritten a field that held another non-zero value
W_OneFieldPerApply ==
  \E c \in Callers :
    /\ pc[c] = "resolve"
    /\ i[c] = 2
    /\ LET f == WrittenField(opts[c][1])
       IN /\ snap[c][f] # ZeroSettings[f]
          /\ snap[c][f] # Payload(opts[c][1])
          /\ heap[cs[c]][f] = Payload(opts[c][1])

\* C10: callSettings(initSettings(A...), B...) equals initSettings(A..., B...)
\* field by field.
ClientAndCallCompose ==
  \A c \in Callers :
    (Returned(c) /\ ret[c] # NilPtr) =>
      \A f \in Fields : heap[ret[c]][f] = initSettings(clientOpts \o opts[c])[f]

\* a call option has overridden the client option on its field, and another
\* call option wrote a field the client left at its zero value
W_ClientAndCallCompose ==
  \E c \in Callers :
    /\ Returned(c)
    /\ Len(clientOpts) = 1 /\ Len(opts[c]) = 2
    /\ WrittenField(opts[c][1]) = WrittenField(clientOpts[1])
    /\ Payload(opts[c][1]) # Payload(clientOpts[1])
    /\ WrittenField(opts[c][2]) # WrittenField(clientOpts[1])

====
